---- MODULE Spec2Model ----
(***************************************************************************)
(* A model of napi (src/napi.py): the command-line client that pulls every *)
(* page of a NewsAPI query and writes the concatenated articles to a JSON  *)
(* file.  The run of cli_main is a sequential state machine; pc is the     *)
(* position of the single thread of control.                               *)
(***************************************************************************)
EXTENDS Integers, Sequences, FiniteSets, TLC

VARIABLES
    pc,             \* position of the run
    command,        \* args.command ("None" when no subcommand was given)
    args_api_key,   \* args.api_key ("None" when --api_key was not given)
    environ,        \* os.environ's NEWSAPI_API_KEY ("None" when unset)
    environ0,       \* the value environ held when the process started
    dotenv,         \* NEWSAPI_API_KEY of the .env file ("None" when absent)
    out_dir_exists, \* Path(args.output_json).parent.exists()
    out_file,       \* the file at args.output_json
    out_file0,      \* the file at args.output_json when the process started
    query_file,     \* the file at args.query_json
    API_KEY,        \* main's API_KEY ("None" before it is assigned)
    query_params,   \* main's query_params dict
    all_articles,   \* main's accumulator
    page,           \* main's page
    num_pages,      \* main's num_pages
    pbar,           \* the tqdm progress bar
    requests,       \* the JSON bodies posted to the endpoint, in order
    responses,      \* the "articles" objects get_page returned, in order
    opened,         \* the files the run has opened, in order
    key_calls,      \* the number of calls of get_api_key
    stdout,         \* the lines printed
    error,          \* the exception that ended the run ("" when none)
    ret             \* cli_main's return value: <<>> until it returns

vars == <<pc, command, args_api_key, environ, environ0, dotenv, out_dir_exists,
          out_file, out_file0, query_file, API_KEY, query_params, all_articles,
          page, num_pages, pbar, requests, responses, opened, key_calls,
          stdout, error, ret>>

\* ---------------------------------------------------------------- bounds

\* The largest total page count a response reports.
PagesBound == 3

\* The largest number of records in one page's results list.
MaxResults == 1

\* ---------------------------------------------------------------- values

\* Python's None, and an environment variable that is not set.
None == "None"

\* The article records: opaque mappings the program never looks into.
Records == {"A", "B"}

\* The non-empty credentials a source can hold.
Keys == {"k1", "k2"}

\* What one credential source can hold: nothing, the empty string, a key.
KeySources == {None, ""} \cup Keys

\* Python's truth value of an optional string.
Truthy(s) == s # None /\ s # ""

\* The sequences over S of length at most n.
SeqUpTo(S, n) == UNION {[1..k -> S] : k \in 0..n}

\* d[k] = v building a new dict that holds k alone.
SetItemDropsOthers(d, k, v) == [j \in {k} |-> v]

\* d[k] = v on a dict: k is added or overwritten, every other key is kept.
SetItem(d, k, v) == [j \in DOMAIN d \cup {k} |-> IF j = k THEN v ELSE d[j]]

\* ------------------------------------------------ the world of one run

\* A file that does not exist.
NoFile == [exists |-> FALSE, text |-> <<>>]

\* Whitespace json.dump(indent=4) writes before each element, and before "]".
Indent == "\n    "

Newline == "\n"

RECURSIVE DumpItems(_)
\* The elements of a non-empty JSON array, each on its own indented line.
DumpItems(s) ==
    IF Len(s) = 1
    THEN <<Indent, s[1]>>
    ELSE <<Indent, s[1], ",">> \o DumpItems(Tail(s))

\* json.dump(s, f, indent=4, ensure_ascii=False): the text written, as tokens.
\* A record is written literally (no \u escapes); [] is written as "[]".
JsonDump(s) ==
    IF s = <<>>
    THEN <<"[", "]">>
    ELSE <<"[">> \o DumpItems(s) \o <<Newline, "]">>

\* The file a previous run left at the output path.
OldFile == [exists |-> TRUE, text |-> JsonDump(<<"B">>)]

\* A dict with no keys.
EmptyDict == [j \in {} |-> None]

\* The JSON objects a query file can hold: with and without the two keys
\* the program reserves.
QueryObjects ==
    { [keyword |-> "x"],
      [keyword |-> "x", lang |-> "eng", apiKey |-> "stale", articlesPage |-> 7] }

\* The query file: absent, not JSON, a JSON array, or a JSON object.
QueryFiles ==
    { [kind |-> "missing"], [kind |-> "invalid"], [kind |-> "array"] }
    \cup { [kind |-> "object", obj |-> q] : q \in QueryObjects }

\* The credential sources of a whole run, <<args.api_key, environ, .env>>:
\* one for each way get_api_key can end.
RunCredentials ==
    { <<"k1", None, None>>,
      <<None, "k2", "k1">>,
      <<"", None, "k1">>,
      <<None, "", None>> }

\* The results list of one page.
PageResults == SeqUpTo(Records, MaxResults)

\* The "articles" object of a response.  has_pages / has_results say whether
\* the key is present; an absent key's value is never read.
WellFormed ==
    [has_pages : {TRUE}, pages : 0..PagesBound,
     has_results : {TRUE}, results : PageResults]

MissingPages ==
    [has_pages : {FALSE}, pages : {0},
     has_results : {TRUE}, results : PageResults]

MissingResults ==
    [has_pages : {TRUE}, pages : 0..PagesBound,
     has_results : {FALSE}, results : {<<>>}]

\* A fresh tqdm(): no total, nothing counted.
NewBar == [total |-> <<>>, n |-> 0]

\* ------------------------------------------------------ get_api_key

\* load_dotenv(): python-dotenv sets a variable of the .env file in
\* os.environ unless os.environ already holds it (override=False).
load_dotenv(env, file) == IF env = None /\ file # None THEN file ELSE env

\* get_api_key with the environment variable consulted before the argument.
get_api_key_env_first(arg, env, file) ==
    IF Truthy(env)
    THEN [key |-> env, environ |-> env, error |-> ""]
    ELSE IF Truthy(arg)
    THEN [key |-> arg, environ |-> env, error |-> ""]
    ELSE LET loaded == load_dotenv(env, file)
         IN  IF Truthy(loaded)
             THEN [key |-> loaded, environ |-> loaded, error |-> ""]
             ELSE [key |-> None, environ |-> loaded, error |-> "TypeError"]

\* get_api_key(args_api_key): the key returned, os.environ afterwards, and
\* the exception raised ("" when it returns).
get_api_key(arg, env, file) ==
    IF Truthy(arg)
    THEN [key |-> arg, environ |-> env, error |-> ""]
    ELSE IF Truthy(env)
    THEN [key |-> env, environ |-> env, error |-> ""]
    ELSE LET loaded == load_dotenv(env, file)
         IN  IF Truthy(loaded)
             THEN [key |-> loaded, environ |-> loaded, error |-> ""]
             ELSE [key |-> None, environ |-> loaded, error |-> "TypeError"]

\* ------------------------------------------------------ get_page, the loop

\* get_page posting the parameters as they were before the page was set.
get_page_body_stale(params, p) == params

\* get_page: query_params after line 84.
get_page_params(params, p) == SetItem(params, "articlesPage", p)

\* get_page: the JSON body line 87 posts.
get_page_body(params, p) == get_page_params(params, p)

\* The loop's exit test with the comparison off by one.
LoopDoneOffByOne(p, n) == p > 1 /\ p >= n

\* The loop's exit test.
LoopDone(p, n) == p > 1 /\ p > n

\* num_pages taken from the first response only.
NextNumPagesFirstOnly(n, data) == IF n = 0 THEN data.pages ELSE n

\* num_pages after a response.
NextNumPages(n, data) == data.pages

\* list.extend putting the new records in front.
ExtendInFront(acc, results) == results \o acc

\* all_articles.extend(data["results"]).
Extend(acc, results) == acc \o results

\* ---------------------------------------------------------------- Init

\* What Init and KeyInit share: nothing has run yet.
Fresh ==
    /\ environ0 = environ
    /\ out_file0 = out_file
    /\ API_KEY = None
    /\ query_params = EmptyDict
    /\ all_articles = <<>>
    /\ page = 1
    /\ num_pages = 0
    /\ pbar = NewBar
    /\ requests = <<>>
    /\ responses = <<>>
    /\ opened = <<>>
    /\ key_calls = 0
    /\ stdout = <<>>
    /\ error = ""
    /\ ret = <<>>

\* The process is started: the command line, the environment and the files
\* are the inputs of the run.
Init ==
    /\ pc = "cli_main"
    /\ command \in {"pull", None}
    /\ \E c \in RunCredentials :
         /\ args_api_key = c[1]
         /\ environ = c[2]
         /\ dotenv = c[3]
    /\ out_dir_exists \in BOOLEAN
    /\ out_file \in (IF out_dir_exists THEN {NoFile, OldFile} ELSE {NoFile})
    /\ query_file \in QueryFiles
    /\ Fresh

\* An exception leaves the run: nothing catches it.
Raise(e) ==
    /\ error' = e
    /\ pc' = "raised"
    /\ ret' = <<>>

\* ------------------------------------------------------------- cli_main

\* cli_main with the pull subcommand: main(args) is entered.
CliPull ==
    /\ pc = "cli_main"
    /\ command = "pull"
    /\ pc' = "check_out_dir"
    /\ UNCHANGED <<command, args_api_key, environ, environ0, dotenv,
                   out_dir_exists, out_file, out_file0, query_file, API_KEY,
                   query_params, all_articles, page, num_pages, pbar, requests,
                   responses, opened, key_calls, stdout, error, ret>>

\* cli_main's else branch returning 0.
CliNoCommandReturnsZero ==
    /\ pc = "cli_main"
    /\ command # "pull"
    /\ stdout' = Append(stdout, "No command specified.")
    /\ ret' = <<0>>
    /\ pc' = "exited"
    /\ UNCHANGED <<command, args_api_key, environ, environ0, dotenv,
                   out_dir_exists, out_file, out_file0, query_file, API_KEY,
                   query_params, all_articles, page, num_pages, pbar, requests,
                   responses, opened, key_calls, error>>

\* cli_main without a subcommand: the hint is printed and 1 returned.
CliNoCommand ==
    /\ pc = "cli_main"
    /\ command # "pull"
    /\ stdout' = Append(stdout, "No command specified.")
    /\ ret' = <<1>>
    /\ pc' = "exited"
    /\ UNCHANGED <<command, args_api_key, environ, environ0, dotenv,
                   out_dir_exists, out_file, out_file0, query_file, API_KEY,
                   query_params, all_articles, page, num_pages, pbar, requests,
                   responses, opened, key_calls, error>>

\* main returned: cli_main returns 0.
CliReturn ==
    /\ pc = "return"
    /\ ret' = <<0>>
    /\ pc' = "exited"
    /\ UNCHANGED <<command, args_api_key, environ, environ0, dotenv,
                   out_dir_exists, out_file, out_file0, query_file, API_KEY,
                   query_params, all_articles, page, num_pages, pbar, requests,
                   responses, opened, key_calls, stdout, error>>

\* ----------------------------------------------------------------- main

\* main going on to the credential without looking at the directory.
CheckOutDirSkipped ==
    /\ pc = "check_out_dir"
    /\ pc' = "get_api_key"
    /\ UNCHANGED <<command, args_api_key, environ, environ0, dotenv,
                   out_dir_exists, out_file, out_file0, query_file, API_KEY,
                   query_params, all_articles, page, num_pages, pbar, requests,
                   responses, opened, key_calls, stdout, error, ret>>

\* main, lines 100-104: the output path's parent directory must exist.
CheckOutDir ==
    /\ pc = "check_out_dir"
    /\ IF out_dir_exists
       THEN pc' = "get_api_key" /\ UNCHANGED <<error, ret>>
       ELSE Raise("FileNotFoundError: output directory")
    /\ UNCHANGED <<command, args_api_key, environ, environ0, dotenv,
                   out_dir_exists, out_file, out_file0, query_file, API_KEY,
                   query_params, all_articles, page, num_pages, pbar, requests,
                   responses, opened, key_calls, stdout>>

\* main, line 107: API_KEY = get_api_key(args.api_key).
GetApiKey ==
    /\ pc = "get_api_key"
    /\ key_calls' = key_calls + 1
    /\ LET r == get_api_key(args_api_key, environ, dotenv)
       IN  /\ environ' = r.environ
           /\ IF r.error = ""
              THEN /\ API_KEY' = r.key
                   /\ pc' = "load_query"
                   /\ UNCHANGED <<error, ret>>
              ELSE /\ Raise(r.error)
                   /\ UNCHANGED API_KEY
    /\ UNCHANGED <<command, args_api_key, environ0, dotenv, out_dir_exists,
                   out_file, out_file0, query_file, query_params, all_articles,
                   page, num_pages, pbar, requests, responses, opened, stdout>>

\* main, lines 110-121: the query file is opened and parsed, the key is
\* stored in it, and the loop's variables and the progress bar are set.  A
\* file that is absent, is not JSON, or holds an array (which takes no string
\* key) ends the run.
LoadQuery ==
    /\ pc = "load_query"
    /\ opened' = IF query_file.kind = "missing"
                 THEN opened
                 ELSE Append(opened, "query_json")
    /\ IF query_file.kind = "object"
       THEN /\ query_params' = SetItem(query_file.obj, "apiKey", API_KEY)
            /\ all_articles' = <<>>
            /\ page' = 1
            /\ num_pages' = 0
            /\ pbar' = NewBar
            /\ pc' = "loop"
            /\ UNCHANGED <<error, ret>>
       ELSE /\ Raise(CASE query_file.kind = "missing" ->
                            "FileNotFoundError: query file"
                       [] query_file.kind = "invalid" -> "JSONDecodeError"
                       [] query_file.kind = "array" -> "TypeError: list indices")
            /\ UNCHANGED <<query_params, all_articles, page, num_pages, pbar>>
    /\ UNCHANGED <<command, args_api_key, environ, environ0, dotenv,
                   out_dir_exists, out_file, out_file0, query_file, API_KEY,
                   requests, responses, key_calls, stdout>>

\* ------------------------------------------------------- the loop of main

\* get_page, lines 84-87: the page is stored in the shared parameters and
\* the parameters are posted.
Post ==
    /\ query_params' = get_page_params(query_params, page)
    /\ requests' = Append(requests, get_page_body(query_params, page))

\* Lines 127-128: the loop is left.
LoopBreak ==
    /\ pc = "loop"
    /\ LoopDone(page, num_pages)
    /\ pc' = "write"
    /\ UNCHANGED <<command, args_api_key, environ, environ0, dotenv,
                   out_dir_exists, out_file, out_file0, query_file, API_KEY,
                   query_params, all_articles, page, num_pages, pbar, requests,
                   responses, opened, key_calls, stdout, error, ret>>

\* One iteration, lines 131-144: the page is fetched, the total is taken
\* from it, its records are appended and the page is advanced.
FetchPage ==
    /\ pc = "loop"
    /\ ~LoopDone(page, num_pages)
    /\ Post
    /\ \E data \in WellFormed :
         /\ responses' = Append(responses, data)
         /\ num_pages' = NextNumPages(num_pages, data)
         /\ pbar' = [total |-> <<NextNumPages(num_pages, data)>>, n |-> pbar.n + 1]
         /\ all_articles' = Extend(all_articles, data.results)
    /\ page' = page + 1
    /\ UNCHANGED <<pc, command, args_api_key, environ, environ0, dotenv,
                   out_dir_exists, out_file, out_file0, query_file, API_KEY,
                   opened, key_calls, stdout, error, ret>>

\* A missing "pages" read as 0, as data.get("pages", 0) would read it.
FetchMissingPagesDefaultsZero ==
    /\ pc = "loop"
    /\ ~LoopDone(page, num_pages)
    /\ Post
    /\ \E data \in MissingPages :
         /\ responses' = Append(responses, data)
         /\ all_articles' = Extend(all_articles, data.results)
    /\ num_pages' = 0
    /\ pbar' = [total |-> <<0>>, n |-> pbar.n + 1]
    /\ page' = page + 1
    /\ UNCHANGED <<pc, command, args_api_key, environ, environ0, dotenv,
                   out_dir_exists, out_file, out_file0, query_file, API_KEY,
                   opened, key_calls, stdout, error, ret>>

\* An iteration whose response has no "pages": line 132 raises KeyError.
FetchMissingPages ==
    /\ pc = "loop"
    /\ ~LoopDone(page, num_pages)
    /\ Post
    /\ \E data \in MissingPages : responses' = Append(responses, data)
    /\ Raise("KeyError: pages")
    /\ UNCHANGED <<command, args_api_key, environ, environ0, dotenv,
                   out_dir_exists, out_file, out_file0, query_file, API_KEY,
                   all_articles, page, num_pages, pbar, opened, key_calls,
                   stdout>>

\* An iteration whose response has no "results": the total is taken and the
\* bar refreshed, then line 140 raises KeyError.
FetchMissingResults ==
    /\ pc = "loop"
    /\ ~LoopDone(page, num_pages)
    /\ Post
    /\ \E data \in MissingResults :
         /\ responses' = Append(responses, data)
         /\ num_pages' = NextNumPages(num_pages, data)
         /\ pbar' = [pbar EXCEPT !.total = <<NextNumPages(num_pages, data)>>]
    /\ Raise("KeyError: results")
    /\ UNCHANGED <<command, args_api_key, environ, environ0, dotenv,
                   out_dir_exists, out_file, out_file0, query_file, API_KEY,
                   all_articles, page, opened, key_calls, stdout>>

\* A failed fetch after which the records gathered so far are written.
FetchHttpErrorWritesPartial ==
    /\ pc = "loop"
    /\ ~LoopDone(page, num_pages)
    /\ Post
    /\ Raise("HTTPError")
    /\ opened' = Append(opened, "output_json")
    /\ out_file' = [exists |-> TRUE, text |-> JsonDump(all_articles)]
    /\ UNCHANGED <<command, args_api_key, environ, environ0, dotenv,
                   out_dir_exists, out_file0, query_file, API_KEY,
                   all_articles, page, num_pages, pbar, responses, key_calls,
                   stdout>>

\* An iteration whose response has a failure status: line 88 raises.
FetchHttpError ==
    /\ pc = "loop"
    /\ ~LoopDone(page, num_pages)
    /\ Post
    /\ Raise("HTTPError")
    /\ UNCHANGED <<command, args_api_key, environ, environ0, dotenv,
                   out_dir_exists, out_file, out_file0, query_file, API_KEY,
                   all_articles, page, num_pages, pbar, responses, opened,
                   key_calls, stdout>>

\* An iteration whose response body is not JSON or has no "articles":
\* line 89 raises.
FetchMalformed ==
    /\ pc = "loop"
    /\ ~LoopDone(page, num_pages)
    /\ Post
    /\ \E e \in {"JSONDecodeError: response", "KeyError: articles"} : Raise(e)
    /\ UNCHANGED <<command, args_api_key, environ, environ0, dotenv,
                   out_dir_exists, out_file, out_file0, query_file, API_KEY,
                   all_articles, page, num_pages, pbar, responses, opened,
                   key_calls, stdout>>

\* Lines 146-147: the output file is opened for writing and the accumulator
\* dumped into it; main returns.
WriteOutput ==
    /\ pc = "write"
    /\ opened' = Append(opened, "output_json")
    /\ out_file' = [exists |-> TRUE, text |-> JsonDump(all_articles)]
    /\ pc' = "return"
    /\ UNCHANGED <<command, args_api_key, environ, environ0, dotenv,
                   out_dir_exists, out_file0, query_file, API_KEY,
                   query_params, all_articles, page, num_pages, pbar, requests,
                   responses, key_calls, stdout, error, ret>>

\* ----------------------------------------------------- the specifications

Next ==
    \/ CliPull
    \/ CliNoCommand
    \/ CliReturn
    \/ CheckOutDir
    \/ GetApiKey
    \/ LoadQuery
    \/ LoopBreak
    \/ FetchPage
    \/ FetchMissingPages
    \/ FetchMissingResults
    \/ FetchHttpError
    \/ FetchMalformed
    \/ WriteOutput

\* One run of the command.
Spec == Init /\ [][Next]_vars

\* The program is one thread that never waits for anything but its own
\* blocking calls, which return: a step that can be taken is taken.
FairSpec == Spec /\ WF_vars(Next)

\* get_api_key called on its own, as the tests call it, for every
\* combination of what the three sources hold.
KeyInit ==
    /\ pc = "get_api_key"
    /\ command = "pull"
    /\ args_api_key \in KeySources
    /\ environ \in KeySources
    /\ dotenv \in KeySources
    /\ out_dir_exists = TRUE
    /\ out_file = NoFile
    /\ query_file = [kind |-> "missing"]
    /\ Fresh

KeySpec == KeyInit /\ [][GetApiKey]_vars

Terminated == pc \in {"exited", "raised"}

\* ------------------------------------------------------------ the claims

RECURSIVE ConcatResults(_)
\* results(1) ++ results(2) ++ ... of a sequence of responses.
ConcatResults(rs) ==
    IF rs = <<>>
    THEN <<>>
    ELSE ConcatResults(SubSeq(rs, 1, Len(rs) - 1)) \o rs[Len(rs)].results

RECURSIVE SumLen(_)
\* The sum of the lengths of the results lists of a sequence of responses.
SumLen(rs) ==
    IF rs = <<>> THEN 0 ELSE Len(rs[1].results) + SumLen(Tail(rs))

\* The pull run has left the loop by its break.
LoopLeft == command = "pull" /\ pc \in {"write", "return", "exited"}

\* Every request so far was answered by a complete response reporting the
\* same total.
SameTotal ==
    /\ requests # <<>>
    /\ Len(responses) = Len(requests)
    /\ \A i \in 1..Len(responses) :
         /\ responses[i].has_pages
         /\ responses[i].has_results
         /\ responses[i].pages = responses[1].pages

\* The number of fetches claim C1 gives for a constant total n.
FetchesFor(n) == IF n >= 2 THEN n ELSE 1

\* C1: when every response reports the same total N, the loop never issues
\* more than N fetches (1 when N <= 1), has issued exactly that many when it
\* is left, and the accumulator is then as long as the results lists of the
\* fetched pages together.
C1_FetchCount ==
    SameTotal =>
        /\ Len(requests) <= FetchesFor(responses[1].pages)
        /\ LoopLeft =>
              /\ Len(requests) = FetchesFor(responses[1].pages)
              /\ Len(all_articles) = SumLen(responses)

C1_Witness ==
    /\ pc = "exited"
    /\ SameTotal
    /\ responses[1].pages >= 3
    /\ Len(all_articles) >= 2

\* C2: get_api_key returns the argument when it is non-empty; otherwise the
\* environment variable when it is non-empty; otherwise the variable's value
\* after the .env file was loaded (the file's value when the variable was
\* unset); and raises, returning nothing, when that too is empty, as it is
\* whenever no source holds a key.
C2_ResolutionOrder ==
    pc # "get_api_key" =>
        /\ Truthy(args_api_key) =>
              error = "" /\ API_KEY = args_api_key /\ environ = environ0
        /\ ~Truthy(args_api_key) /\ Truthy(environ0) =>
              error = "" /\ API_KEY = environ0 /\ environ = environ0
        /\ ~Truthy(args_api_key) /\ ~Truthy(environ0) /\ Truthy(environ) =>
              error = "" /\ API_KEY = environ
        /\ ~Truthy(args_api_key) /\ environ0 = None /\ Truthy(dotenv) =>
              error = "" /\ API_KEY = dotenv
        /\ ~Truthy(args_api_key) /\ ~Truthy(environ0) /\ ~Truthy(environ) =>
              error = "TypeError" /\ API_KEY = None /\ pc = "raised"
        /\ ~Truthy(args_api_key) /\ ~Truthy(environ0) /\ ~Truthy(dotenv) =>
              error = "TypeError"
        /\ error = "" => Truthy(API_KEY)

C2_Witness ==
    /\ pc = "load_query"
    /\ args_api_key = ""
    /\ environ0 = None
    /\ Truthy(dotenv)
    /\ API_KEY = dotenv

\* C3 as stated: a first response with pages = 0, or without pages, is
\* followed by no second fetch and no error, and its records are what the
\* finished run has written.
C3_Original ==
    (/\ responses # <<>>
     /\ responses[1].has_results
     /\ (~responses[1].has_pages \/ responses[1].pages = 0)) =>
        /\ Len(requests) = 1
        /\ error = ""
        /\ pc \in {"return", "exited"} =>
              out_file = [exists |-> TRUE, text |-> JsonDump(responses[1].results)]

\* C3, amended: a first response with pages = 0 is followed by no second
\* fetch and no error, and its records are what the finished run has
\* written; a first response without pages ends the run with KeyError after
\* that one fetch, and the output file is neither opened nor changed.
C3_Amended ==
    /\ (/\ responses # <<>>
        /\ responses[1].has_results
        /\ responses[1].has_pages
        /\ responses[1].pages = 0) =>
           /\ Len(requests) = 1
           /\ error = ""
           /\ pc \in {"loop", "write", "return", "exited"}
           /\ pc \in {"return", "exited"} =>
                 out_file = [exists |-> TRUE,
                             text |-> JsonDump(responses[1].results)]
    /\ (responses # <<>> /\ ~responses[1].has_pages) =>
           /\ Len(requests) = 1
           /\ pc = "raised"
           /\ error = "KeyError: pages"
           /\ ret = <<>>
           /\ out_file = out_file0
           /\ \A i \in 1..Len(opened) : opened[i] # "output_json"

C3_Witness ==
    /\ pc = "exited"
    /\ Len(responses) = 1
    /\ responses[1].has_pages
    /\ responses[1].pages = 0
    /\ responses[1].results # <<>>
    /\ out_file0 = OldFile

\* C4: when the output path's parent directory does not exist, no request is
\* ever sent, get_api_key is never called and no file is opened, and the
\* pull run ends in main's FileNotFoundError.
C4_PreflightFirst ==
    ~out_dir_exists =>
        /\ requests = <<>>
        /\ key_calls = 0
        /\ opened = <<>>
        /\ API_KEY = None
        /\ pc \in {"cli_main", "check_out_dir", "raised", "exited"}
        /\ pc = "raised" => error = "FileNotFoundError: output directory"
        /\ pc = "exited" => command # "pull"

C4_Witness ==
    /\ ~out_dir_exists
    /\ pc = "raised"
    /\ Truthy(args_api_key)
    /\ query_file.kind = "object"

\* The exceptions a fetch ends the run with.
FetchErrors ==
    { "HTTPError", "JSONDecodeError: response", "KeyError: articles",
      "KeyError: pages", "KeyError: results" }

\* C5: after a fetch of page k has failed the run is over with the error:
\* the failed request is the last one sent (k requests in all), nothing
\* can follow it, and the output file was not opened and is as it was when
\* the run started.
C5_FetchFailureAborts ==
    error \in FetchErrors =>
        /\ pc = "raised"
        /\ ret = <<>>
        /\ Len(requests) = page
        /\ ~ENABLED Next
        /\ out_file = out_file0
        /\ \A i \in 1..Len(opened) : opened[i] # "output_json"

C5_Witness ==
    /\ error = "HTTPError"
    /\ page = 2
    /\ all_articles # <<>>
    /\ out_file0 = OldFile

\* C6: the accumulator is always the concatenation, in page order, of the
\* results of the page - 1 pages taken in so far, and the file a finished
\* run has written is the dump of that concatenation.
C6_Concatenation ==
    /\ Len(responses) >= page - 1
    /\ all_articles = ConcatResults(SubSeq(responses, 1, page - 1))
    /\ (command = "pull" /\ pc \in {"return", "exited"}) =>
          /\ Len(responses) = page - 1
          /\ out_file = [exists |-> TRUE,
                         text |-> JsonDump(ConcatResults(responses))]

C6_Witness ==
    /\ pc = "exited"
    /\ Len(responses) = 2
    /\ all_articles = <<"A", "B">>

\* C7: without a subcommand cli_main prints the hint and returns 1, having
\* resolved no credential, opened no file and sent no request; it returns 0
\* only from a pull run that took in every page and wrote the output file;
\* and a run ended by an exception returns nothing.
C7_ExitCodes ==
    /\ command # "pull" =>
          /\ pc \in {"cli_main", "exited"}
          /\ key_calls = 0 /\ opened = <<>> /\ requests = <<>>
          /\ out_file = out_file0
          /\ pc = "exited" => ret = <<1>> /\ Len(stdout) = 1
    /\ ret = <<0>> =>
          /\ command = "pull" /\ pc = "exited" /\ error = ""
          /\ requests # <<>>
          /\ Len(requests) = page - 1
          /\ Len(responses) = page - 1
          /\ page > num_pages
          /\ out_file = [exists |-> TRUE, text |-> JsonDump(all_articles)]
    /\ error # "" => ret = <<>> /\ pc = "raised"
    /\ pc = "exited" <=> ret # <<>>

C7_Witness ==
    /\ command # "pull"
    /\ pc = "exited"
    /\ ret = <<1>>
    /\ Truthy(args_api_key)
    /\ out_dir_exists

\* The two keys of the query parameters the program writes.
Reserved == {"apiKey", "articlesPage"}

\* C8: every request body has exactly the keys of the query file plus
\* apiKey and articlesPage, carries every other key with the value the file
\* gave it, and carries the resolved credential as apiKey; the shared
\* parameters keep the file's other keys and values throughout.
C8_OnlyReservedKeysChange ==
    query_file.kind = "object" =>
        /\ \A i \in 1..Len(requests) :
              /\ DOMAIN requests[i] = DOMAIN query_file.obj \cup Reserved
              /\ \A k \in DOMAIN query_file.obj \ Reserved :
                    requests[i][k] = query_file.obj[k]
              /\ Truthy(API_KEY)
              /\ requests[i]["apiKey"] = API_KEY
        /\ pc \in {"loop", "write", "return", "exited"} /\ command = "pull" =>
              /\ DOMAIN query_params \ Reserved = DOMAIN query_file.obj \ Reserved
              /\ \A k \in DOMAIN query_file.obj \ Reserved :
                    query_params[k] = query_file.obj[k]
              /\ query_params["apiKey"] = API_KEY

C8_Witness ==
    /\ query_file.kind = "object"
    /\ "apiKey" \in DOMAIN query_file.obj
    /\ Len(requests) >= 2

\* C9: the body of the i-th request carries articlesPage = i, and once a
\* request was sent the shared parameters hold the page of the last one.
C9_PageSetBeforeSend ==
    /\ \A i \in 1..Len(requests) :
          /\ "articlesPage" \in DOMAIN requests[i]
          /\ requests[i]["articlesPage"] = i
    /\ requests # <<>> =>
          /\ "articlesPage" \in DOMAIN query_params
          /\ query_params["articlesPage"] = Len(requests)
    /\ pc = "loop" => Len(requests) = page - 1

C9_Witness ==
    /\ Len(requests) = 3
    /\ "articlesPage" \in DOMAIN query_file.obj

\* What claim C10 says of every state: each fetch but the last was answered
\* with a total above its own page, and the loop is left only after at
\* least one fetch, the last of which reported a total not above its page.
C10_LeastPage ==
    /\ \A j \in 1..(Len(requests) - 1) :
          responses[j].has_pages /\ responses[j].pages > j
    /\ LoopLeft =>
          /\ requests # <<>>
          /\ Len(responses) = Len(requests)
          /\ responses[Len(requests)].pages <= Len(requests)
    /\ (pc = "loop" /\ requests # <<>>) =>
          (LoopDone(page, num_pages)
             <=> responses[Len(requests)].pages <= Len(requests))

\* C10: the number of fetches is the least k whose response reports
\* pages <= k, the total being read from every response; and with the
\* reported totals bounded, every run ends.
C10_Termination == [](C10_LeastPage) /\ <>Terminated

C10_Witness ==
    /\ pc = "exited"
    /\ Len(requests) = 3
    /\ responses[1].pages < responses[2].pages
    /\ responses[3].pages = 0

====
